---- MODULE Spec2Model ----
(***************************************************************************)
(* Queue families and queue groups of gfx-hal (src/hal/src/queue/family.rs) *)
(* as a state machine: a backend builds RawQueueGroups with new/add_queue, *)
(* hands the map to Queues::new, and the client empties the registry with  *)
(* Queues::take::<C> and Queues::take_raw.                                  *)
(*                                                                         *)
(* A failed assert! is a panic.  The model records the panic in `last` and *)
(* keeps the state the unwinding leaves behind; a build with panic=abort   *)
(* simply takes no further step after such a state.                        *)
(***************************************************************************)
EXTENDS Integers, Sequences, FiniteSets

\* ------------------------------------------------------------- bounds
MaxFamilies == 2     \* family ids are 0 .. MaxFamilies-1
MaxQueues == 2       \* the largest max_queues() a family reports

FamilyIds == 0 .. (MaxFamilies - 1)

\* ------------------------------------------------------------- data
QueueTypes == {"General", "Graphics", "Compute", "Transfer"}

\* The capability tags this file names (use queue::capability::{Graphics, Compute}).
Capabilities == {"Graphics", "Compute"}

\* What a queue of the given type can do.
TypeAbilities(queue_type) ==
    CASE queue_type = "General"  -> {"graphics", "compute", "transfer"}
      [] queue_type = "Graphics" -> {"graphics", "transfer"}
      [] queue_type = "Compute"  -> {"compute", "transfer"}
      [] queue_type = "Transfer" -> {"transfer"}

\* What a capability tag asks for.
TagAbilities(C) ==
    CASE C = "Graphics" -> {"graphics"}
      [] C = "Compute"  -> {"compute"}

\* C::supported_by(queue_type)
supported_by(C, queue_type) == TagAbilities(C) \subseteq TypeAbilities(queue_type)

\* Mutant of supports_compute: it asks for the graphics capability.
supports_compute_graphics(family) == supported_by("Graphics", family.queue_type)

\* QueueFamily::supports_graphics / supports_compute (default methods)
supports_graphics(family) == supported_by("Graphics", family.queue_type)

supports_compute(family) == supported_by("Compute", family.queue_type)

\* The values of a type implementing QueueFamily.
AllFamilies == [queue_type : QueueTypes, max_queues : 0 .. MaxQueues]

\* The families of a device whose every family reports the same max_queues().
Families == [queue_type : QueueTypes, max_queues : {MaxQueues}]

\* The backend's command queue number i of family id.
RawCommandQueue(id, i) == <<id, i>>

\* CommandQueue(q, PhantomData): the tuple struct wrapping a raw queue.
CommandQueue(q, C) == [raw |-> q, cap |-> C]

\* ------------------------------------------------------------- state
VARIABLES
    groups,      \* the backend's HashMap<QueueFamilyId, RawQueueGroup> under construction
    constructed, \* whether Queues::new has been called
    registry,    \* Queues.0
    results,     \* per family id, the populated values returned to callers, in call order
    dropped,     \* the raw command queues destroyed when a panic unwound their owner
    last,        \* the last call: operation, arguments, outcome, panic message
    origin       \* history: every raw group as the backend built it

vars == <<groups, constructed, registry, results, dropped, last, origin>>

\* The empty HashMap.
EmptyMap == [k \in {} |-> {}]

NoDiag == [msg |-> "", args |-> <<>>]

NoCall == [op |-> "none", id |-> -1, cap |-> "", outcome |-> "", diag |-> NoDiag]

Call(op, id, C, outcome, diag) ==
    [op |-> op, id |-> id, cap |-> C, outcome |-> outcome, diag |-> diag]

Range(s) == {s[i] : i \in DOMAIN s}

Init ==
    /\ groups = EmptyMap
    /\ constructed = FALSE
    /\ registry = EmptyMap
    /\ results = [id \in FamilyIds |-> <<>>]
    /\ dropped = {}
    /\ last = NoCall
    /\ origin = EmptyMap

\* ------------------------------------------------------------- RawQueueGroup
\* RawQueueGroup::new
RawQueueGroup_new(family) == [family |-> family, queues |-> <<>>]

\* Mutants of add_queue_assert: an off-by-one bound; no check at all.
add_queue_assert_le(group) == Len(group.queues) <= group.family.max_queues

add_queue_assert_none(group) == TRUE

\* The assertion of RawQueueGroup::add_queue.
add_queue_assert(group) == Len(group.queues) < group.family.max_queues

\* The push of RawQueueGroup::add_queue.
add_queue_push(group, queue) == [group EXCEPT !.queues = Append(@, queue)]

\* The message of a failed assert!(expr): the stringified expression, with no
\* formatted arguments.
AssertFailed(expr) == [msg |-> expr, args |-> <<>>]

\* HashMap::insert / HashMap::remove
MapInsert(map, k, v) == [x \in DOMAIN map \cup {k} |-> IF x = k THEN v ELSE map[x]]

\* Mutant of MapRemove: the whole map is emptied.
MapRemove_all(map, k) == EmptyMap

MapRemove(map, k) == [x \in DOMAIN map \ {k} |-> map[x]]

\* The backend creates the raw group of a family it has not created yet.
NewGroup(id, family) ==
    /\ ~constructed
    /\ id \notin DOMAIN groups
    /\ groups' = MapInsert(groups, id, RawQueueGroup_new(family))
    /\ origin' = groups'
    /\ last' = Call("new", id, "", "ok", NoDiag)
    /\ UNCHANGED <<constructed, registry, results, dropped>>

\* The command queue the backend creates next for the raw group of family id.
NextQueue(id) == RawCommandQueue(id, Len(groups[id].queues) + 1)

\* The backend adds a newly created command queue to a raw group.  When the
\* assertion fails the group is left as it was and the queue passed by value
\* is destroyed with the call's frame.
AddQueue(id) ==
    /\ ~constructed
    /\ id \in DOMAIN groups
    /\ IF add_queue_assert(groups[id])
       THEN /\ groups' = [groups EXCEPT ![id] = add_queue_push(@, NextQueue(id))]
            /\ last' = Call("add_queue", id, "", "ok", NoDiag)
       ELSE /\ UNCHANGED groups
            /\ last' = Call("add_queue", id, "", "panic",
                            AssertFailed("self.queues.len() < self.family.max_queues()"))
    /\ origin' = groups'
    /\ UNCHANGED <<constructed, registry, results, dropped>>

\* ------------------------------------------------------------- QueueGroup
\* Mutant of QueueGroup_new_assert: the capability is not checked.
QueueGroup_new_unchecked(C, raw) == TRUE

\* The assertion of QueueGroup::new.
QueueGroup_new_assert(C, raw) == supported_by(C, raw.family.queue_type)

\* Mutant of QueueGroup_new: the queues are collected in reverse.
QueueGroup_new_rev(C, id, raw) ==
    [family |-> id,
     queues |-> [i \in 1 .. Len(raw.queues) |->
                    CommandQueue(raw.queues[Len(raw.queues) + 1 - i], C)]]

\* The value QueueGroup::new builds.
QueueGroup_new(C, id, raw) ==
    [family |-> id,
     queues |-> [i \in 1 .. Len(raw.queues) |-> CommandQueue(raw.queues[i], C)]]

\* ------------------------------------------------------------- Queues
\* Queues::new
Queues_new(queues) == queues

Construct ==
    /\ ~constructed
    /\ constructed' = TRUE
    /\ registry' = Queues_new(groups)
    /\ groups' = EmptyMap
    /\ last' = Call("construct", -1, "", "ok", NoDiag)
    /\ UNCHANGED <<results, dropped, origin>>

\* The raw command queues the entry for id holds, none when there is no entry.
EntryQueues(map, id) == IF id \in DOMAIN map THEN Range(map[id].queues) ELSE {}

\* Mutants of take_registry: the entry is looked up and left in the map; the
\* entry is removed only once the capability check has passed.
take_registry_keep(C, map, id) == map

take_registry_checked(C, map, id) ==
    IF id \in DOMAIN map /\ ~supported_by(C, map[id].family.queue_type)
    THEN map
    ELSE MapRemove(map, id)

\* self.0.remove(&id) of Queues::take: the map it leaves, whatever the closure
\* given to Option::map does afterwards.
take_registry(C, map, id) == MapRemove(map, id)

\* Mutant of take_outcome: the Option is unwrapped, so absence panics.
take_outcome_unwrap(C, map, id) ==
    IF id \in DOMAIN map /\ supported_by(C, map[id].family.queue_type)
    THEN "Some"
    ELSE "panic"

\* How Queues::take::<C> ends: Option::map skips the closure on None, and the
\* closure panics when the assertion of QueueGroup::new fails.
take_outcome(C, map, id) ==
    IF id \notin DOMAIN map THEN "None"
    ELSE IF QueueGroup_new_assert(C, map[id]) THEN "Some"
    ELSE "panic"

\* Queues::take::<C>
Take(C, id) ==
    /\ constructed
    /\ registry' = take_registry(C, registry, id)
    /\ last' = Call("take", id, C, take_outcome(C, registry, id),
                    IF take_outcome(C, registry, id) = "panic"
                    THEN AssertFailed("C::supported_by(raw.family.queue_type())")
                    ELSE NoDiag)
    /\ results' = IF take_outcome(C, registry, id) = "Some"
                  THEN [results EXCEPT ![id] =
                           Append(@, [kind |-> "typed", cap |-> C,
                                      value |-> QueueGroup_new(C, id, registry[id])])]
                  ELSE results
    /\ dropped' = IF take_outcome(C, registry, id) = "panic"
                  THEN dropped \cup EntryQueues(registry, id)
                  ELSE dropped
    /\ UNCHANGED <<groups, constructed, origin>>

\* Mutant of take_raw_registry: the queues are copied out and the entry stays.
take_raw_registry_keep(map, id) == map

\* self.0.remove(&id) of Queues::take_raw: the map it leaves.
take_raw_registry(map, id) == MapRemove(map, id)

\* Mutant of take_raw_value: the last queue is lost.
take_raw_value_short(group) ==
    [i \in 1 .. (IF Len(group.queues) > 0 THEN Len(group.queues) - 1 ELSE 0) |->
        group.queues[i]]

\* group.queues of the closure in Queues::take_raw.
take_raw_value(group) == group.queues

\* How Queues::take_raw ends.
take_raw_outcome(map, id) == IF id \notin DOMAIN map THEN "None" ELSE "Some"

\* Queues::take_raw
TakeRaw(id) ==
    /\ constructed
    /\ registry' = take_raw_registry(registry, id)
    /\ last' = Call("take_raw", id, "", take_raw_outcome(registry, id), NoDiag)
    /\ results' = IF take_raw_outcome(registry, id) = "Some"
                  THEN [results EXCEPT ![id] =
                           Append(@, [kind |-> "raw", cap |-> "",
                                      value |-> take_raw_value(registry[id])])]
                  ELSE results
    /\ UNCHANGED <<groups, constructed, dropped, origin>>

\* The whole life of a registry: the backend builds the raw groups, hands them
\* to Queues::new, and the client extracts them.
Next ==
    \/ \E id \in FamilyIds, family \in Families : NewGroup(id, family)
    \/ \E id \in FamilyIds : AddQueue(id)
    \/ Construct
    \/ \E C \in Capabilities, id \in FamilyIds : Take(C, id)
    \/ \E id \in FamilyIds : TakeRaw(id)

Spec == Init /\ [][Next]_vars

\* The backend's construction of raw groups alone, over every family value.
NextBuild ==
    \/ \E id \in FamilyIds, family \in AllFamilies : NewGroup(id, family)
    \/ \E id \in FamilyIds : AddQueue(id)

SpecBuild == Init /\ [][NextBuild]_vars

\* ------------------------------------------------------------- properties
Extractions == {"take", "take_raw"}

\* The raw command queues a returned value holds, in order.
ResultQueues(r) ==
    IF r.kind = "typed"
    THEN [i \in DOMAIN r.value.queues |-> r.value.queues[i].raw]
    ELSE r.value

\* The places that hold a raw command queue: a position in a registry entry, or
\* a position in a value returned to a caller.
Slots(reg, res) ==
    UNION {{<<"registry", id, 0, i>> : i \in DOMAIN reg[id].queues} : id \in DOMAIN reg}
    \cup
    UNION {UNION {{<<"result", id, k, i>> : i \in DOMAIN ResultQueues(res[id][k])} :
                  k \in DOMAIN res[id]} :
           id \in DOMAIN res}

\* The raw command queue held at a place.
QueueAt(reg, res, slot) ==
    IF slot[1] = "registry"
    THEN reg[slot[2]].queues[slot[4]]
    ELSE ResultQueues(res[slot[2]][slot[3]])[slot[4]]

\* The raw command queues that have an owner.
Held(reg, res) == {QueueAt(reg, res, slot) : slot \in Slots(reg, res)}

\* No raw command queue is held at two places.
NoSharedQueue(reg, res) == Cardinality(Slots(reg, res)) = Cardinality(Held(reg, res))

\* Every raw command queue the backend put into a raw group.
AllQueues == UNION {Range(origin[id].queues) : id \in DOMAIN origin}

\* C1: one-shot extraction.  Once an extraction call (take::<C> for any C, or
\* take_raw) has returned a populated value for id, the registry has no entry
\* for id, that value stays the only one ever returned for id, and every later
\* take::<C> or take_raw for id returns None.
C1_OneShotExtraction ==
    /\ [](\A id \in FamilyIds :
            Len(results[id]) >= 1 => id \notin DOMAIN registry /\ Len(results[id]) = 1)
    /\ [][\A id \in FamilyIds :
            (Len(results[id]) >= 1 /\ last'.op \in Extractions /\ last'.id = id)
            => (last'.outcome = "None" /\ results' = results
                /\ id \notin DOMAIN registry')]_vars

\* A second extraction of an id, of the other kind than the first, saw None.
C1_Witness ==
    /\ last.op = "take_raw" /\ last.outcome = "None"
    /\ Len(results[last.id]) = 1
    /\ results[last.id][1].kind = "typed"

\* C2: take::<C>(id) on a present family whose queue_type satisfies C returns
\* Some group whose family is id and whose queues are the raw group's queues,
\* each wrapped with C, in the same number and the same order.
C2_TakePreservesQueues ==
    [][\A id \in FamilyIds :
         (last'.op = "take" /\ last'.id = id /\ id \in DOMAIN registry
          /\ supported_by(last'.cap, registry[id].family.queue_type))
         => /\ last'.outcome = "Some"
            /\ Len(results'[id]) = Len(results[id]) + 1
            /\ LET r == results'[id][Len(results'[id])]
               IN /\ r.kind = "typed"
                  /\ r.value.family = id
                  /\ Len(r.value.queues) = Len(registry[id].queues)
                  /\ \A i \in DOMAIN registry[id].queues :
                       r.value.queues[i] = CommandQueue(registry[id].queues[i], last'.cap)]_vars

\* take::<C> returned a group of MaxQueues (at least two) queues.
C2_Witness ==
    /\ last.op = "take" /\ last.outcome = "Some"
    /\ Len(results[last.id]) = 1
    /\ Len(results[last.id][1].value.queues) = MaxQueues
    /\ MaxQueues >= 2

\* C3: take::<C>(id) on a present family whose queue_type does not satisfy C
\* panics and returns no group; so every typed group ever returned for id
\* carries a capability that the queue_type of family id satisfies.
C3_CapabilityGuarantee ==
    /\ [](\A id \in FamilyIds : \A k \in DOMAIN results[id] :
            results[id][k].kind = "typed"
            => supported_by(results[id][k].cap, origin[id].family.queue_type))
    /\ [][\A id \in FamilyIds :
            (last'.op = "take" /\ last'.id = id /\ id \in DOMAIN registry
             /\ ~supported_by(last'.cap, registry[id].family.queue_type))
            => (last'.outcome = "panic" /\ results' = results)]_vars

\* take::<Compute> on a Graphics family that had not been taken panicked.
C3_Witness ==
    /\ last.op = "take" /\ last.outcome = "panic" /\ last.cap = "Compute"
    /\ origin[last.id].family.queue_type = "Graphics"
    /\ results[last.id] = <<>>

\* C4: take::<C>(id) for an id the registry has no entry for (never present, or
\* already taken) returns None for every C, also one the former family does not
\* satisfy, and changes neither the registry nor what was returned.
C4_AbsenceIsNotFatal ==
    [][\A id \in FamilyIds :
         (last'.op = "take" /\ last'.id = id /\ id \notin DOMAIN registry)
         => (last'.outcome = "None" /\ registry' = registry /\ results' = results
             /\ dropped' = dropped)]_vars

\* After take::<Graphics> consumed a Graphics family, take::<Compute> on the same
\* id returned None.
C4_Witness ==
    /\ last.op = "take" /\ last.outcome = "None" /\ last.cap = "Compute"
    /\ last.id \in DOMAIN origin
    /\ origin[last.id].family.queue_type = "Graphics"
    /\ Len(results[last.id]) = 1
    /\ results[last.id][1].cap = "Graphics"

\* C5: capacity boundary of add_queue.  RawQueueGroup::new gives an empty
\* group; add_queue panics exactly when queues.len() equals max_queues before
\* the call, leaving the group as it was, and otherwise appends its queue at the
\* end.  So of the calls on a new group with max_queues = N the first N succeed
\* and the next one panics.
C5_CapacityBoundary ==
    /\ [](last.op = "new" => groups[last.id].queues = <<>>)
    /\ [][\A id \in FamilyIds :
            (last'.op = "add_queue" /\ last'.id = id)
            => IF Len(groups[id].queues) = groups[id].family.max_queues
               THEN last'.outcome = "panic" /\ groups' = groups
               ELSE /\ last'.outcome = "ok"
                    /\ groups'[id].queues = Append(groups[id].queues, NextQueue(id))
                    /\ groups'[id].family = groups[id].family
                    /\ Len(groups'[id].queues) <= groups[id].family.max_queues]_vars

\* A group with max_queues = MaxQueues holds MaxQueues queues, added in order,
\* and the call after them panicked.
C5_Witness ==
    /\ last.op = "add_queue" /\ last.outcome = "panic"
    /\ groups[last.id].family.max_queues = MaxQueues
    /\ groups[last.id].queues =
           [i \in 1 .. MaxQueues |-> RawCommandQueue(last.id, i)]

\* C6: a raw group made by new and any add_queue calls, panicking ones
\* included, never holds more queues than its family's max_queues.
C6_LenWithinMaxQueues ==
    \A id \in DOMAIN groups :
        Len(groups[id].queues) <= groups[id].family.max_queues

\* A panicking add_queue left a full group of one queue behind.
C6_Witness ==
    /\ last.op = "add_queue" /\ last.outcome = "panic"
    /\ groups[last.id].family.max_queues = 1
    /\ Len(groups[last.id].queues) = 1

\* C7 as stated: after construction every raw command queue the registry was
\* given has exactly one owner among the registry entries and the values
\* returned to callers.
C7_ExactlyOneOwner ==
    constructed =>
        /\ NoSharedQueue(registry, results)
        /\ Held(registry, results) = AllQueues

\* C7 amended: after construction every raw command queue has at most one owner
\* among the registry entries and the values returned to callers; it has none
\* exactly when a take::<C> that panicked on its family destroyed it.
C7_AtMostOneOwner ==
    constructed =>
        /\ NoSharedQueue(registry, results)
        /\ Held(registry, results) \cup dropped = AllQueues
        /\ Held(registry, results) \cap dropped = {}

\* One family was returned with its queues, the other was destroyed by a
\* panicking take.
C7_Witness ==
    /\ constructed
    /\ dropped # {}
    /\ \E id \in FamilyIds :
          /\ Len(results[id]) = 1
          /\ Len(ResultQueues(results[id][1])) = MaxQueues

\* C8: take_raw(id) on a present family, whatever its queue_type, returns Some
\* of exactly the raw group's queues, in order, and removes the entry; on an
\* absent id it returns None; it never panics.
C8_TakeRaw ==
    [][\A id \in FamilyIds :
         (last'.op = "take_raw" /\ last'.id = id)
         => IF id \in DOMAIN registry
            THEN /\ last'.outcome = "Some"
                 /\ id \notin DOMAIN registry'
                 /\ Len(results'[id]) = Len(results[id]) + 1
                 /\ results'[id][Len(results'[id])].kind = "raw"
                 /\ results'[id][Len(results'[id])].value = registry[id].queues
                 /\ dropped' = dropped
            ELSE /\ last'.outcome = "None"
                 /\ registry' = registry /\ results' = results]_vars

\* take_raw returned the MaxQueues queues of a Transfer family.
C8_Witness ==
    /\ last.op = "take_raw" /\ last.outcome = "Some"
    /\ origin[last.id].family.queue_type = "Transfer"
    /\ Len(results[last.id]) = 1
    /\ results[last.id][1].value =
           [i \in 1 .. MaxQueues |-> RawCommandQueue(last.id, i)]

\* Whether a panic message carries the value v among its formatted arguments.
Mentions(diag, v) == \E i \in DOMAIN diag.args : diag.args[i] = v

\* C9: every panic of add_queue or take::<C> carries a message that names the
\* family id, the family's queue type, and the requested capability (take) or
\* the bound (add_queue).
C9_DiagnosticIdentifies ==
    last.outcome = "panic" =>
        /\ Mentions(last.diag, last.id)
        /\ Mentions(last.diag, origin[last.id].family.queue_type)
        /\ IF last.op = "take"
           THEN Mentions(last.diag, last.cap)
           ELSE Mentions(last.diag, origin[last.id].family.max_queues)

\* C10: when take::<C>(id) panics on a capability mismatch, the entry for id
\* was present before the call and is gone after it, nothing was returned, and
\* the entry's queues are owned neither by the registry nor by a returned value.
C10_RemovedBeforeCheck ==
    [][\A id \in FamilyIds :
         (last'.op = "take" /\ last'.id = id /\ last'.outcome = "panic")
         => /\ id \in DOMAIN registry
            /\ ~supported_by(last'.cap, registry[id].family.queue_type)
            /\ id \notin DOMAIN registry'
            /\ results' = results
            /\ Range(registry[id].queues) \cap Held(registry', results') = {}]_vars

\* A panicking take::<C> emptied a family of MaxQueues queues.
C10_Witness ==
    /\ last.op = "take" /\ last.outcome = "panic"
    /\ last.id \notin DOMAIN registry
    /\ Len(origin[last.id].queues) = MaxQueues
    /\ Range(origin[last.id].queues) \subseteq dropped

\* C11: frame of extraction.  A take::<C>(id) or take_raw(id) call that finds id
\* present removes exactly the entry for id and leaves every other entry, family
\* and queues, as it was; one that finds id absent leaves the registry as it
\* was.  After construction no step adds an entry.
C11_ExtractionFrame ==
    [][/\ (last'.op \in Extractions) =>
            /\ DOMAIN registry' = DOMAIN registry \ {last'.id}
            /\ \A k \in DOMAIN registry' : registry'[k] = registry[k]
            /\ (last'.id \notin DOMAIN registry => registry' = registry)
       /\ constructed => DOMAIN registry' \subseteq DOMAIN registry]_vars

\* An extraction removed one entry and the registry still holds another family
\* with its MaxQueues queues.
C11_Witness ==
    /\ last.op \in Extractions /\ last.outcome = "Some"
    /\ last.id \notin DOMAIN registry
    /\ \E k \in DOMAIN registry :
          /\ k # last.id
          /\ registry[k] = origin[k]
          /\ Len(registry[k].queues) = MaxQueues

\* The supports_* predicate of a family that answers for capability tag C.
SupportsTag(C, family) ==
    IF C = "Graphics" THEN supports_graphics(family) ELSE supports_compute(family)

====
